---- MODULE Spec2Model ----
(***************************************************************************)
(* Model of etl.py: a batch job that derives the tables songs, artists,    *)
(* users, time and songplays from the song_data and log_data JSON inputs   *)
(* and writes each of them as parquet in overwrite mode.                   *)
(*                                                                         *)
(* Conventions.  A row is a record.  A DataFrame whose rows may repeat     *)
(* (a JSON input, a join result) is a sequence of rows; the result of a    *)
(* SELECT DISTINCT is a set of rows.  A parquet destination is a record    *)
(* [exists, parts] where parts maps each partition directory (the record   *)
(* of its partitionBy column values, the empty record when the write is    *)
(* not partitioned) to the rows stored under it, without those columns.    *)
(* SQL NULL in a string column is the value NULL; the nullable bigint      *)
(* column ts is <<>> when null and <<n>> when it holds n.                  *)
(***************************************************************************)
EXTENDS Integers, Sequences, FiniteSets, TLC

VARIABLES
    song_data,   \* the records under input_data + "song_data/*/*/*/*.json"
    log_data,    \* the records under input_data + "log_data/*/*/*.json"
    store,       \* the five parquet destinations under output_data
    views,       \* the Spark session's temp views "songs", "logs", "time"
    pc,          \* the statement of main the run executes next
    failed,      \* an exception has left main
    run,         \* number of the current run of main
    df,          \* the local DataFrame df of process_log_data
    prior,       \* the contents of the destinations when the current run began
    lineage      \* for each row of the songplays DataFrame, the index in the
                 \* "logs" view of the row it was joined from

vars == <<song_data, log_data, store, views, df, pc, failed, run, prior, lineage>>

\* Bounds of the model.
MaxSongRecords == 2
MaxLogRecords == 2
MaxRuns == 2

NULL == "NULL"
NoTs == <<>>

----------------------------------------------------------------------------
\* Generic helpers.

Range(s) == {s[i] : i \in DOMAIN s}

Project(r, F) == [f \in F |-> r[f]]

RECURSIVE SetToSeq(_)
SetToSeq(S) ==
    IF S = {} THEN <<>>
    ELSE LET x == CHOOSE y \in S : TRUE IN <<x>> \o SetToSeq(S \ {x})

RECURSIVE Flatten(_)
Flatten(ss) == IF ss = <<>> THEN <<>> ELSE Head(ss) \o Flatten(Tail(ss))

\* The nondecreasing index sequences of length at most n over 1..k: one
\* representative of every multiset of at most n input records.
SortedIndexSeqs(k, n) ==
    UNION {{s \in [1..m -> 1..k] : \A i \in 1..m : \A j \in 1..m : i <= j => s[i] <= s[j]}
           : m \in 0..n}

----------------------------------------------------------------------------
\* The inputs.

\* One record of song_data (the fields the queries read).
SongRecord(song_id, title, artist_id, artist_location, year) ==
    [song_id |-> song_id, title |-> title, artist_id |-> artist_id,
     artist_name |-> "Name", artist_location |-> artist_location,
     artist_latitude |-> "35.1", artist_longitude |-> "-90.0",
     year |-> year, duration |-> "218.9"]

\* One record of log_data (the fields the queries read).
LogRecord(page, ts, userId, level, song) ==
    [page |-> page, ts |-> ts, userId |-> userId, firstName |-> "First",
     lastName |-> "Last", gender |-> "F", level |-> level, sessionId |-> "139",
     location |-> "Loc", userAgent |-> "UA", song |-> song]

\* Input records the runs draw from: two songs with one title, one song_id
\* under two titles, one artist_id with two locations, null keys and a null
\* title.
SongRecordSamples ==
    << SongRecord("S1", "Foo", "A1", "L1", 2000),
       SongRecord("S2", "Foo", "A1", "L2", 2001),
       SongRecord("S1", "Baz", "A1", "L1", 2000),
       SongRecord(NULL, "Bar", "A2", "L1", 2000),
       SongRecord("S3", NULL, NULL, "L1", 2000) >>

\* One user with two levels, a page other than NextSong, a null userId, null
\* song titles, a null ts, a ts that is a multiple of 1000 and one that is not.
LogRecordSamples ==
    << LogRecord("NextSong", <<1500>>, "8", "free", "Foo"),
       LogRecord("NextSong", <<1500>>, "8", "paid", "Bar"),
       LogRecord("Home", <<2000>>, "9", "free", NULL),
       LogRecord("NextSong", <<86400000>>, NULL, "free", NULL),
       LogRecord("Home", NoTs, "9", "free", NULL) >>

SongDataInputs ==
    {[i \in DOMAIN s |-> SongRecordSamples[s[i]]] :
        s \in SortedIndexSeqs(Len(SongRecordSamples), MaxSongRecords)}

LogDataInputs ==
    {[i \in DOMAIN s |-> LogRecordSamples[s[i]]] :
        s \in SortedIndexSeqs(Len(LogRecordSamples), MaxLogRecords)}

----------------------------------------------------------------------------
\* Timestamps.  A TimestampType value is [sec, micros]: whole seconds since
\* the epoch and microseconds within the second.  The session time zone is
\* UTC.  A timestamp rendered as a string is the sequence of its fields
\* <<year, month, day, hour, minute, second>>, followed by the fraction when
\* the fraction is not zero.

\* get_timestamp: str(int(x) / 1000.0), a decimal string, kept as
\* <<whole part, thousandths>>.
get_timestamp(ts) == <<ts[1] \div 1000, ts[1] % 1000>>

\* get_datetime: datetime.fromtimestamp(int(x) / 1000.0).
get_datetime(ts) == [sec |-> ts[1] \div 1000, micros |-> (ts[1] % 1000) * 1000]

\* int(x) raises TypeError when x is None.
UdfRaises(rows) == \E i \in DOMAIN rows : rows[i].ts = NoTs

\* Days since the epoch to <<year, month, day>> of the proleptic Gregorian
\* calendar.
CivilFromDays(days) ==
    LET z == days + 719468
        era == z \div 146097
        doe == z - era * 146097
        yoe == (doe - doe \div 1460 + doe \div 36524 - doe \div 146096) \div 365
        doy == doe - (365 * yoe + yoe \div 4 - yoe \div 100)
        mp == (5 * doy + 2) \div 153
        d == doy - (153 * mp + 2) \div 5 + 1
        m == IF mp < 10 THEN mp + 3 ELSE mp - 9
        y == yoe + era * 400 + (IF m <= 2 THEN 1 ELSE 0)
    IN <<y, m, d>>

\* <<year, month, day>> to days since the epoch.
DaysFromCivil(y0, m, d) ==
    LET y == IF m <= 2 THEN y0 - 1 ELSE y0
        era == y \div 400
        yoe == y - era * 400
        doy == (153 * (IF m > 2 THEN m - 3 ELSE m + 9) + 2) \div 5 + d - 1
        doe == yoe * 365 + yoe \div 4 - yoe \div 100 + doy
    IN era * 146097 + doe - 719468

DaysOf(t) == t.sec \div 86400

year(t) == CivilFromDays(DaysOf(t))[1]
month(t) == CivilFromDays(DaysOf(t))[2]
day(t) == CivilFromDays(DaysOf(t))[3]
hour(t) == (t.sec % 86400) \div 3600
minute(t) == (t.sec % 3600) \div 60
second(t) == t.sec % 60

\* dayofweek: 1 = Sunday, ..., 7 = Saturday (day 0 of the epoch is a Thursday).
dayofweek(t) == ((DaysOf(t) + 4) % 7) + 1

\* ISO 8601 weekday, 1 = Monday, ..., 7 = Sunday.
IsoWeekday(days) == ((days + 3) % 7) + 1

\* Number of ISO weeks of year y.
IsoWeeksInYear(y) ==
    LET jan1 == IsoWeekday(DaysFromCivil(y, 1, 1))
        leap == (y % 4 = 0 /\ y % 100 # 0) \/ y % 400 = 0
    IN IF jan1 = 4 \/ (leap /\ jan1 = 3) THEN 53 ELSE 52

\* weekofyear: the ISO 8601 week number.
weekofyear(t) ==
    LET days == DaysOf(t)
        y == year(t)
        ordinal == days - DaysFromCivil(y, 1, 1) + 1
        w == (ordinal - IsoWeekday(days) + 10) \div 7
    IN IF w < 1 THEN IsoWeeksInYear(y - 1)
       ELSE IF w > IsoWeeksInYear(y) THEN 1
       ELSE w

\* The cast of a timestamp to a string: 'yyyy-MM-dd HH:mm:ss', with the
\* fraction of the second appended when it is not zero.
TimestampToString(t) ==
    <<year(t), month(t), day(t), hour(t), minute(t), second(t)>>
        \o (IF t.micros = 0 THEN <<>> ELSE <<t.micros>>)

\* FROM_UNIXTIME(ts/1000): ts/1000 is a double, which the bigint parameter
\* of FROM_UNIXTIME truncates to whole seconds; the result is the string
\* 'yyyy-MM-dd HH:mm:ss' (the empty sequence stands for a null result).
FROM_UNIXTIME(ts) ==
    IF ts = NoTs THEN <<>>
    ELSE TimestampToString([sec |-> ts[1] \div 1000, micros |-> 0])

----------------------------------------------------------------------------
\* DataFrames and parquet destinations.

\* SELECT DISTINCT: each row once.
Distinct(rows) == SetToSeq(Range(rows))

\* A destination nothing has been written to.
Absent == [exists |-> FALSE, parts |-> <<>>]

\* partitionBy(cols): one directory per combination of values of cols, which
\* holds the rows with those values, stored without the columns cols.
PartitionBy(rows, cols) ==
    [k \in {Project(rows[i], cols) : i \in DOMAIN rows} |->
        LET mine == SelectSeq(rows, LAMBDA r : Project(r, cols) = k)
        IN [i \in DOMAIN mine |-> Project(mine[i], (DOMAIN mine[i]) \ cols)]]

\* A write without partitionBy: the rows lie in the destination directory.
Unpartitioned(rows) == PartitionBy(rows, {})

\* mode("append") adds the new files to those the destination holds.
ModeAppend(old, new) ==
    [exists |-> TRUE,
     parts |-> [k \in (DOMAIN old.parts) \cup (DOMAIN new) |->
                  (IF k \in DOMAIN old.parts THEN old.parts[k] ELSE <<>>)
                  \o (IF k \in DOMAIN new THEN new[k] ELSE <<>>)]]

\* mode("overwrite") replaces whatever the destination holds.
ModeOverwrite(old, new) == [exists |-> TRUE, parts |-> new]

\* spark.read.parquet: the rows of every directory, with the partition
\* columns restored from the directory.
ReadParquet(dest) ==
    LET keys == SetToSeq(DOMAIN dest.parts)
    IN Flatten([n \in DOMAIN keys |->
                  [i \in DOMAIN dest.parts[keys[n]] |->
                      keys[n] @@ dest.parts[keys[n]][i]]])

----------------------------------------------------------------------------
\* The queries.

\* songs_table.
SongsTable(songs) ==
    LET kept == SelectSeq(songs, LAMBDA r : r.song_id # NULL)
    IN Distinct([i \in DOMAIN kept |->
        Project(kept[i], {"song_id", "title", "artist_id", "year", "duration"})])

\* artists_table.
ArtistsTable(songs) ==
    LET kept == SelectSeq(songs, LAMBDA r : r.artist_id # NULL)
    IN Distinct([i \in DOMAIN kept |->
        [artist_id |-> kept[i].artist_id, name |-> kept[i].artist_name,
         location |-> kept[i].artist_location,
         lattitude |-> kept[i].artist_latitude,
         longitude |-> kept[i].artist_longitude]])

\* df.filter(df.page == "NextSong").
FilterNextSong(rows) == SelectSeq(rows, LAMBDA r : r.page = "NextSong")

\* users_table without its WHERE clause.
UsersTableUnfiltered(logs) ==
    Distinct([i \in DOMAIN logs |->
        [user_id |-> logs[i].userId, first_name |-> logs[i].firstName,
         last_name |-> logs[i].lastName, gender |-> logs[i].gender,
         level |-> logs[i].level]])

\* users_table.
UsersTable(logs) ==
    LET kept == SelectSeq(logs, LAMBDA r : r.userId # NULL)
    IN Distinct([i \in DOMAIN kept |->
        [user_id |-> kept[i].userId, first_name |-> kept[i].firstName,
         last_name |-> kept[i].lastName, gender |-> kept[i].gender,
         level |-> kept[i].level]])

\* df.withColumn('timestamp', ...).withColumn('datetime', ...).
WithTimeColumns(rows) ==
    [i \in DOMAIN rows |->
        rows[i] @@ [timestamp |-> get_timestamp(rows[i].ts),
                  datetime |-> get_datetime(rows[i].ts)]]

\* time_table (a datetime is never null: get_datetime raises instead).
TimeTable(time) ==
    Distinct([i \in DOMAIN time |->
        [start_time |-> time[i].datetime, hour |-> hour(time[i].datetime),
         day |-> day(time[i].datetime), week |-> weekofyear(time[i].datetime),
         month |-> month(time[i].datetime), year |-> year(time[i].datetime),
         weekday |-> dayofweek(time[i].datetime)]])

\* Equality that also holds between two nulls (<=> in SQL).
NullSafeEq(a, b) == a = b

\* The SQL comparison a = b as a join condition: never true of a null.
SqlEq(a, b) == a # NULL /\ b # NULL /\ a = b

\* The columns of s in a row of the left join that matched no row of s.
NullSongRow == [song_id |-> NULL, artist_id |-> NULL]

\* The rows of songs that satisfy the join condition with the log row l.
Matches(l, songs) == SelectSeq(songs, LAMBDA s : SqlEq(s.title, l.song))

\* INNER JOIN songs s ON (s.title = l.song): the rows joined to the log row l.
InnerJoinMatches(l, songs) == Matches(l, songs)

\* LEFT JOIN songs s ON (s.title = l.song): the rows joined to the log row l,
\* the matching rows of songs and one null row when there is none.
JoinMatches(l, songs) ==
    IF Matches(l, songs) = <<>> THEN <<NullSongRow>> ELSE Matches(l, songs)

\* The joined rows in the order of logs: [l |-> index in logs, s |-> row of s].
LeftJoin(logs, songs) ==
    Flatten([i \in DOMAIN logs |->
        [j \in DOMAIN JoinMatches(logs[i], songs) |->
            [l |-> i, s |-> JoinMatches(logs[i], songs)[j]]]])

\* The record number within the partition alone.
RowNumberInPartition(part, off) == [part |-> 0, off |-> off]

\* monotonically_increasing_id(): the partition index in the upper 31 bits,
\* the record number within the partition in the lower 33 bits; kept as the
\* two bit fields.
monotonically_increasing_id(part, off) == [part |-> part, off |-> off]

\* songplays_table, when the first cut joined rows are computed in partition
\* 0 and the others in partition 1.
SongplaysTable(logs, songs, cut) ==
    LET joined == LeftJoin(logs, songs)
    IN [n \in DOMAIN joined |->
          [songplay_id |-> IF n <= cut
                           THEN monotonically_increasing_id(0, n - 1)
                           ELSE monotonically_increasing_id(1, n - cut - 1),
           start_time |-> FROM_UNIXTIME(logs[joined[n].l].ts),
           user_id |-> logs[joined[n].l].userId,
           level |-> logs[joined[n].l].level,
           song_id |-> joined[n].s.song_id,
           artist_id |-> joined[n].s.artist_id,
           session_id |-> logs[joined[n].l].sessionId,
           location |-> logs[joined[n].l].location,
           user_agent |-> logs[joined[n].l].userAgent]]

----------------------------------------------------------------------------
\* The run.

Destinations == {"songs", "artists", "users", "time", "songplays"}

\* The statements of main that read or write storage, in program order.
Steps ==
    << "read_song_data", "write_songs", "write_artists", "read_log_data",
       "write_users", "write_time", "read_songs", "write_songplays", "end" >>

StepIndex(p) == CHOOSE i \in DOMAIN Steps : Steps[i] = p

\* The statement that writes destination d.
WriteStep(d) == "write_" \o d

NoViews == [songs |-> <<>>, logs |-> <<>>, time |-> <<>>]

\* What an earlier run on another input has left at the destinations.
StaleStore ==
    LET songs == << SongRecord("S9", "Old", "A9", "L9", 1999) >>
        logs == << LogRecord("NextSong", <<3000>>, "7", "free", "Old") >>
    IN [songs |-> ModeOverwrite(Absent,
                    PartitionBy(SongsTable(songs), {"year", "artist_id"})),
        artists |-> ModeOverwrite(Absent, Unpartitioned(ArtistsTable(songs))),
        users |-> ModeOverwrite(Absent, Unpartitioned(UsersTable(logs))),
        time |-> ModeOverwrite(Absent,
                    PartitionBy(TimeTable(WithTimeColumns(logs)), {"year", "month"})),
        songplays |-> ModeOverwrite(Absent,
                    Unpartitioned(SongplaysTable(logs, SongsTable(songs), 1)))]

Init ==
    /\ song_data \in SongDataInputs
    /\ log_data \in LogDataInputs
    /\ store \in {[d \in Destinations |-> Absent], StaleStore}
    /\ views = NoViews
    /\ df = <<>>
    /\ pc = "read_song_data"
    /\ failed = FALSE
    /\ run = 1
    /\ prior = store
    /\ lineage = <<>>

\* The statement at pc completes and control reaches the next statement.
Advance == pc' = Steps[StepIndex(pc) + 1] /\ UNCHANGED <<failed, run, prior>>

\* An exception is caught nowhere, and the run goes on with the next statement.
AbortSwallowed == Advance

\* An exception leaves the statement at pc, process_*_data and main: the run ends.
Abort == failed' = TRUE /\ UNCHANGED <<pc, run, prior>>

Running(p) == pc = p /\ ~failed

\* df = spark.read.json(song_data); df.createOrReplaceTempView("songs")
ReadSongData ==
    /\ Running("read_song_data")
    /\ views' = [views EXCEPT !.songs = song_data]
    /\ Advance
    /\ UNCHANGED <<song_data, log_data, store, df, lineage>>

\* songs_table.write.mode("overwrite").partitionBy("year", "artist_id")
WriteSongs ==
    /\ Running("write_songs")
    /\ store' = [store EXCEPT !.songs =
                    ModeOverwrite(@, PartitionBy(SongsTable(views.songs),
                                                 {"year", "artist_id"}))]
    /\ Advance
    /\ UNCHANGED <<song_data, log_data, views, df, lineage>>

\* artists_table.write.mode("overwrite")
WriteArtists ==
    /\ Running("write_artists")
    /\ store' = [store EXCEPT !.artists =
                    ModeOverwrite(@, Unpartitioned(ArtistsTable(views.songs)))]
    /\ Advance
    /\ UNCHANGED <<song_data, log_data, views, df, lineage>>

\* df = spark.read.json(log_data); the view "logs" is df filtered, df is not.
ReadLogData ==
    /\ Running("read_log_data")
    /\ df' = log_data
    /\ views' = [views EXCEPT !.logs = FilterNextSong(log_data)]
    /\ Advance
    /\ UNCHANGED <<song_data, log_data, store, lineage>>

\* users_table.write.mode("overwrite")
WriteUsers ==
    /\ Running("write_users")
    /\ store' = [store EXCEPT !.users =
                    ModeOverwrite(@, Unpartitioned(UsersTable(views.logs)))]
    /\ Advance
    /\ UNCHANGED <<song_data, log_data, views, df, lineage>>

\* The two withColumn calls, the view "time" and
\* time_table.write.mode("overwrite").partitionBy("year", "month")
WriteTime ==
    /\ Running("write_time")
    /\ ~UdfRaises(df)
    /\ df' = WithTimeColumns(df)
    /\ views' = [views EXCEPT !.time = WithTimeColumns(df)]
    /\ store' = [store EXCEPT !.time =
                    ModeOverwrite(@, PartitionBy(TimeTable(WithTimeColumns(df)),
                                                 {"year", "month"}))]
    /\ Advance
    /\ UNCHANGED <<song_data, log_data, lineage>>

\* What a write that fails may leave at destination d: what was there, or
\* nothing (overwrite removes the old files before it writes the new ones).
FailedWrite(d) == {store, [store EXCEPT ![d] = Absent]}

\* The write of time_table evaluates get_datetime on every row of df, and
\* the job fails on a row whose ts is null.
WriteTimeUdfFails ==
    /\ Running("write_time")
    /\ UdfRaises(df)
    /\ store' \in FailedWrite("time")
    /\ Abort
    /\ UNCHANGED <<song_data, log_data, views, df, lineage>>

\* A read_songs step that leaves the view "songs" as process_song_data made it.
ReadSongsKeepsView ==
    /\ Running("read_songs")
    /\ store.songs.exists
    /\ Advance
    /\ UNCHANGED <<song_data, log_data, store, views, df, lineage>>

\* song_df = spark.read.parquet(output_data + "songs/");
\* song_df.createOrReplaceTempView("songs")
ReadSongs ==
    /\ Running("read_songs")
    /\ store.songs.exists
    /\ views' = [views EXCEPT !.songs = ReadParquet(store.songs)]
    /\ Advance
    /\ UNCHANGED <<song_data, log_data, store, df, lineage>>

\* songplays_table.write.mode("overwrite")
WriteSongplays ==
    /\ Running("write_songplays")
    /\ \E cut \in 0..Len(LeftJoin(views.logs, views.songs)) :
          store' = [store EXCEPT !.songplays =
                      ModeOverwrite(@, Unpartitioned(
                          SongplaysTable(views.logs, views.songs, cut)))]
    /\ lineage' = [n \in DOMAIN LeftJoin(views.logs, views.songs) |->
                      LeftJoin(views.logs, views.songs)[n].l]
    /\ Advance
    /\ UNCHANGED <<song_data, log_data, views, df>>

\* The storage fails under the statement at pc (unreachable, unreadable,
\* unwritable, or the path read does not exist).
StorageError ==
    /\ ~failed
    /\ pc # "end"
    /\ \/ \E d \in Destinations : pc = WriteStep(d) /\ store' \in FailedWrite(d)
       \/ (\A d \in Destinations : pc # WriteStep(d)) /\ store' = store
    /\ Abort
    /\ UNCHANGED <<song_data, log_data, views, df, lineage>>

\* After a run that completed, main is run again, in a new Spark session, on
\* the same input.
Rerun ==
    /\ pc = "end"
    /\ run < MaxRuns
    /\ run' = run + 1
    /\ pc' = "read_song_data"
    /\ failed' = FALSE
    /\ prior' = store
    /\ views' = NoViews
    /\ df' = <<>>
    /\ lineage' = <<>>
    /\ UNCHANGED <<song_data, log_data, store>>

Next ==
    \/ ReadSongData
    \/ WriteSongs
    \/ WriteArtists
    \/ ReadLogData
    \/ WriteUsers
    \/ WriteTime
    \/ WriteTimeUdfFails
    \/ ReadSongs
    \/ WriteSongplays
    \/ StorageError
    \/ Rerun

Spec == Init /\ [][Next]_vars

----------------------------------------------------------------------------
\* Vocabulary of the properties.

\* The activity records with page == "NextSong", in input order.
NextSongRecords == FilterNextSong(log_data)

\* The current run has completed the write of destination d.
Written(d) == StepIndex(pc) > StepIndex(WriteStep(d))

\* The rows destination d holds.
Table(d) == ReadParquet(store[d])

\* The persisted Song rows whose title equals the song of activity record r.
SongsTitled(r) ==
    {s \in Range(Table("songs")) : s.title # NULL /\ r.song # NULL /\ s.title = r.song}

\* The rows of the written songplays table that stem from the i-th NextSong record.
EventsOf(i) == {n \in DOMAIN lineage : lineage[n] = i}

RECURSIVE SumOver(_, _)
SumOver(f, n) == IF n = 0 THEN 0 ELSE f[n] + SumOver(f, n - 1)

Max(a, b) == IF a >= b THEN a ELSE b

\* What the Catalog Pipeline leaves at its destinations for the input song_data.
SongsDestination ==
    [exists |-> TRUE,
     parts |-> PartitionBy(SongsTable(song_data), {"year", "artist_id"})]

ArtistsDestination ==
    [exists |-> TRUE, parts |-> Unpartitioned(ArtistsTable(song_data))]

\* What the Activity Pipeline leaves at users and time for the input log_data.
UsersDestination ==
    [exists |-> TRUE, parts |-> Unpartitioned(UsersTable(NextSongRecords))]

TimeDestination ==
    [exists |-> TRUE,
     parts |-> PartitionBy(TimeTable(WithTimeColumns(log_data)), {"year", "month"})]

\* No two rows of the sequence rows agree on column key.
UniqueKey(rows, key) ==
    \A m \in DOMAIN rows : \A n \in DOMAIN rows :
        m # n => rows[m][key] # rows[n][key]

----------------------------------------------------------------------------
\* C1 (as claimed): the songplays table a run writes has exactly as many rows
\* as there are activity records with page == "NextSong".
C1_RowCountEqualsNextSong ==
    Written("songplays") => Len(Table("songplays")) = Len(NextSongRecords)

\* C1 (amended): the songplays table a run writes has, for every activity
\* record with page == "NextSong", one row per persisted Song row whose title
\* equals the record's song, and one row when there is none; so it never has
\* fewer rows than there are such records.
C1_RowCountIsSumOfMatches ==
    Written("songplays") =>
        /\ Len(Table("songplays")) =
              SumOver([i \in DOMAIN NextSongRecords |->
                          Max(1, Cardinality(SongsTitled(NextSongRecords[i])))],
                      Len(NextSongRecords))
        /\ Len(Table("songplays")) >= Len(NextSongRecords)

\* A run wrote songplays where one record matched two Song rows and another none.
C1_Witness ==
    /\ Written("songplays")
    /\ \E i \in DOMAIN NextSongRecords :
          Cardinality(SongsTitled(NextSongRecords[i])) = 2
    /\ \E i \in DOMAIN NextSongRecords : SongsTitled(NextSongRecords[i]) = {}
    /\ Len(Table("songplays")) = 3

\* C2 (as claimed): the users, time and songplays tables a run writes are
\* those of the activity records with page == "NextSong" alone; records with
\* another page change none of them.
C2_OnlyNextSongRecords ==
    /\ Written("users") =>
          Range(Table("users")) = Range(UsersTable(NextSongRecords))
    /\ Written("time") =>
          Range(Table("time")) = Range(TimeTable(WithTimeColumns(NextSongRecords)))
    /\ Written("songplays") =>
          \E cut \in 0..Len(Table("songplays")) :
              Table("songplays") =
                  SongplaysTable(NextSongRecords, Table("songs"), cut)

\* C3 (as claimed): no written dimension table has two rows with one key.
C3_NoDuplicateKeys ==
    /\ Written("songs") => UniqueKey(Table("songs"), "song_id")
    /\ Written("artists") => UniqueKey(Table("artists"), "artist_id")
    /\ Written("users") => UniqueKey(Table("users"), "user_id")
    /\ Written("time") => UniqueKey(Table("time"), "start_time")

\* C4 (as claimed): the start_time of every songplays row is identical to the
\* start_time of the time row of the same ts (the timestamp of the time
\* table compared as the string it casts to).
C4_SameStartTime ==
    Written("songplays") =>
        \A n \in DOMAIN lineage :
            \E t \in Range(Table("time")) :
                /\ t.start_time = get_datetime(NextSongRecords[lineage[n]].ts)
                /\ Table("songplays")[n].start_time = TimestampToString(t.start_time)

\* C5: the fact step reads the songs destination only after this run has
\* overwritten it, and the rows of the view "songs" it joins are exactly the
\* Song rows this run wrote.
C5_JoinReadsSongsOfThisRun ==
    /\ (pc = "read_songs" /\ ~failed) => store.songs = SongsDestination
    /\ StepIndex(pc) > StepIndex("read_songs") =>
          /\ Range(views.songs) = Range(SongsTable(song_data))
          /\ Len(views.songs) = Len(SongsTable(song_data))

\* A run joined its own Song rows where the destination held other rows before
\* and the catalog input has rows that are not Song rows.
C5_Witness ==
    /\ pc = "end"
    /\ run = 1
    /\ prior.songs.exists
    /\ prior.songs # store.songs
    /\ Len(views.songs) = 2
    /\ Len(song_data) = 2

\* C6: every activity record with page == "NextSong" has a songplays row; its
\* rows carry null song_id and artist_id when no persisted Song row has its
\* song as title (or its song is null), and otherwise the song_id and
\* artist_id of the Song rows with that title, each of them in one row.
C6_LeftJoin ==
    Written("songplays") =>
        \A i \in DOMAIN NextSongRecords :
            LET matches == SongsTitled(NextSongRecords[i])
                events == {Table("songplays")[n] : n \in EventsOf(i)}
            IN /\ events # {}
               /\ matches = {} =>
                     \A e \in events : e.song_id = NULL /\ e.artist_id = NULL
               /\ \A s \in matches : \E e \in events :
                     e.song_id = s.song_id /\ e.artist_id = s.artist_id
               /\ matches # {} =>
                     \A e \in events : \E s \in matches :
                         e.song_id = s.song_id /\ e.artist_id = s.artist_id

\* A run wrote songplays for a record whose song is a Song title and for a
\* record whose song is null while a Song row has a null title.
C6_Witness ==
    /\ Written("songplays")
    /\ \E i \in DOMAIN NextSongRecords : SongsTitled(NextSongRecords[i]) # {}
    /\ \E i \in DOMAIN NextSongRecords : NextSongRecords[i].song = NULL
    /\ \E s \in Range(Table("songs")) : s.title = NULL

\* C7: no two rows of the songplays table a run writes have one songplay_id.
C7_UniqueSongplayId ==
    Written("songplays") => UniqueKey(Table("songplays"), "songplay_id")

\* A run wrote songplays rows multiplied by two matches, in two partitions.
C7_Witness ==
    /\ Written("songplays")
    /\ Len(Table("songplays")) > Len(NextSongRecords)
    /\ \E m \in DOMAIN Table("songplays") : \E n \in DOMAIN Table("songplays") :
          /\ Table("songplays")[m].songplay_id.part = 0
          /\ Table("songplays")[n].songplay_id.part = 1
          /\ Table("songplays")[n].songplay_id.off = 1

\* C8: no written dimension table has a row with a null key, and every key
\* of a written songs, artists or users row (and every start_time of a written
\* time row) is the key value of some input record.
C8_NoNullKeys ==
    /\ Written("songs") =>
          \A r \in Range(Table("songs")) :
              /\ r.song_id # NULL
              /\ \E c \in Range(song_data) : c.song_id = r.song_id
    /\ Written("artists") =>
          \A r \in Range(Table("artists")) :
              /\ r.artist_id # NULL
              /\ \E c \in Range(song_data) : c.artist_id = r.artist_id
    /\ Written("users") =>
          \A r \in Range(Table("users")) :
              /\ r.user_id # NULL
              /\ \E l \in Range(log_data) : l.userId = r.user_id
    /\ Written("time") =>
          \A r \in Range(Table("time")) :
              \E l \in Range(log_data) :
                  l.ts # NoTs /\ r.start_time = get_datetime(l.ts)

\* A run wrote the four dimension tables from inputs that hold a null song_id,
\* a null artist_id and a null userId on a NextSong record.
C8_Witness ==
    /\ Written("time")
    /\ \E c \in Range(song_data) : c.song_id = NULL
    /\ \E c \in Range(song_data) : c.artist_id = NULL
    /\ \E l \in Range(NextSongRecords) : l.userId = NULL
    /\ Len(Table("songs")) = 1
    /\ Len(Table("artists")) = 1
    /\ Len(Table("users")) = 1
    /\ Len(Table("time")) = 2

\* C9: once a run has executed the Catalog Pipeline, the songs and artists
\* destinations hold exactly the tables of the catalog input, whatever they
\* held before; so a second run on the same input leaves them as the first did.
C9_CatalogIdempotent ==
    /\ Written("songs") => store.songs = SongsDestination
    /\ Written("artists") => store.artists = ArtistsDestination

\* A second run has executed the Catalog Pipeline over the output of the
\* first, which had overwritten the output of an earlier run.
C9_Witness ==
    /\ run = 2
    /\ Written("artists")
    /\ prior.songs = store.songs
    /\ prior.artists = store.artists
    /\ Table("songs") # <<>>
    /\ Table("songs") # ReadParquet(StaleStore.songs)

\* In the current run, the write of destination d has not been attempted.
NotYetAttempted(d) ==
    \/ StepIndex(pc) < StepIndex(WriteStep(d))
    \/ pc = WriteStep(d) /\ ~failed

\* C10: the tables are written in the order songs, artists, users, time,
\* songplays; a step that fails ends the run: no later step executes, the
\* tables whose write comes later keep their prior contents, and the tables
\* the run has written stay written (after a failed read of the songs table,
\* users and time are overwritten and songplays is untouched).
C10_AbortOnFailure ==
    /\ [](\A d \in Destinations :
            /\ NotYetAttempted(d) => store[d] = prior[d]
            /\ Written(d) => store[d].exists)
    /\ []((failed /\ pc = "read_songs") =>
            /\ store.users = UsersDestination
            /\ store.time = TimeDestination
            /\ store.songplays = prior.songplays)
    /\ [][(failed /\ run' = run) => (failed' /\ pc' = pc /\ store' = store)]_vars
    /\ [][(~failed /\ failed') =>
            /\ pc' = pc
            /\ \A d \in Destinations : Written(d) => store'[d] = store[d]]_vars

\* The read of the songs table failed in a run that found the output of an
\* earlier run at its destinations.
C10_Witness ==
    /\ failed
    /\ pc = "read_songs"
    /\ prior = StaleStore
    /\ store.users # prior.users
    /\ store.time # prior.time
    /\ store.songplays = prior.songplays

====
